---- MODULE Spec2Model ----
(***************************************************************************)
(* Survey session engine of the site-survey tool: the session store       *)
(* (App.jsx), the debounced autosave and the storage layer (storage.js),  *)
(* the review screen's submission attempt and the pending upload queue    *)
(* (ReviewScreen.jsx).                                                     *)
(*                                                                         *)
(* Conventions.  JavaScript strings are TLA+ strings; an optional string  *)
(* that is absent, undefined, null or '' is "" wherever the code only     *)
(* tests its truthiness, and NullS where the code stores null.  Numbers   *)
(* are integers; a null in a numeric or timestamp field is Null.          *)
(* Date.now() and new Date() read the variable now.                       *)
(***************************************************************************)
EXTENDS Integers, Sequences, FiniteSets, Bags, TLC

Null == -1
NullS == "<null>"

\* ------------------------------------------------------------------ bounds

\* highest value of the wall clock
MaxClock == 2
\* session mutations in one behaviour of the autosave specification
MaxEdits == 2
\* storage calls (saveSurveyProgress, queue operations) in flight at once
MaxInflight == 2
\* enqueue calls in one behaviour
MaxEnqueues == 3
\* files of one selection in the photo tab
MaxPhotos == 1
\* file selections whose reads are in flight at once
MaxReads == 1
\* submission attempts in flight at once
MaxAttempts == 2
\* documents downloaded in one run
MaxDownloads == 2

\* ------------------------------------------------------------ sequences

RECURSIVE SeqSum(_)
SeqSum(s) == IF s = <<>> THEN 0 ELSE Head(s) + SeqSum(Tail(s))

\* Array.prototype.map
Map(s, F(_)) == [i \in 1..Len(s) |-> F(s[i])]

\* Array.prototype.filter
Filter(s, P(_)) ==
  LET F[n \in 0..Len(s)] ==
        IF n = 0 THEN <<>>
        ELSE IF P(s[n]) THEN Append(F[n - 1], s[n]) ELSE F[n - 1]
  IN  F[Len(s)]

\* number of elements of s that satisfy P: s.filter(P).length
Count(s, P(_)) == Len(Filter(s, P))

\* keys in the order of their first occurrence
RECURSIVE FirstSeen(_)
FirstSeen(s) ==
  IF s = <<>> THEN <<>>
  ELSE LET h == Head(s)
       IN  <<h>> \o FirstSeen(Filter(Tail(s), LAMBDA k : k # h))

RemoveAt(s, k) == SubSeq(s, 1, k - 1) \o SubSeq(s, k + 1, Len(s))

Last(s) == s[Len(s)]

\* Calls in flight are a bag: they advance independently of the order in
\* which they were started.
One(op) == SetToBag({op})

\* the bag b with F applied to each element
BagMap(b, F(_)) ==
  LET S == BagToSet(b)
  IN  [y \in {F(x) : x \in S} |->
        LET pre == {x \in S : F(x) = y}
            G[T \in SUBSET pre] ==
              IF T = {} THEN 0
              ELSE LET x == CHOOSE x \in T : TRUE
                   IN  b[x] + G[T \ {x}]
        IN  G[pre]]

\* ------------------------------------------------------- imported dataset

\* One camera record of the imported placement file.
Cam(id, name, room, floorId, floorName, lat, lng) ==
  [id |-> id, name |-> name, room |-> room, floorId |-> floorId,
   floorName |-> floorName, latitude |-> lat, longitude |-> lng,
   mountType |-> "ceiling"]

\* Two floors: floor A with Lobby (2 cameras) and Hall (1), floor B with
\* Office (1).
ScenarioDataset ==
  [cameras |-> << Cam("c1", "Cam 1", "Lobby",  "A", "", 0, 0),
                  Cam("c2", "Cam 2", "Lobby",  "A", "", 0, 1),
                  Cam("c3", "Cam 3", "Hall",   "A", "", 1, 0),
                  Cam("c4", "Cam 4", "Office", "B", "", 1, 1) >>]

\* One floor without a floor id: a room named by its first camera, and a
\* camera that has neither room nor name.
SmallDataset ==
  [cameras |-> << Cam("k1", "Door", "", "", "Ground", 1, 1),
                  Cam("k2", "", "Door", "", "", 0, 1),
                  Cam("k3", "", "", "", "", 0, 0) >>]

Datasets == {ScenarioDataset, SmallDataset}

\* a site with a room of the same name on each of two floors
TwoFloorDataset ==
  [cameras |-> << Cam("t1", "Cam 1", "Office", "A", "", 0, 0),
                  Cam("t2", "Cam 2", "Office", "B", "", 0, 1) >>]

\* positions a technician can confirm in the reposition modal
Positions == { [latitude |-> 1, longitude |-> 0],
               [latitude |-> 0, longitude |-> 1] }

\* ------------------------------------------------------------ cameraData.js

\* Own property keys that are canonical array indices: Object.entries lists
\* them first, in ascending numeric order, before the other string keys.
IndexVal == ("0" :> 0) @@ ("1" :> 1) @@ ("2" :> 2) @@ ("3" :> 3)

IsArrayIndex(k) == k \in DOMAIN IndexVal

RECURSIVE SortByIndexVal(_)
SortByIndexVal(s) ==
  IF s = <<>> THEN <<>>
  ELSE LET m == CHOOSE i \in 1..Len(s) :
                  \A j \in 1..Len(s) : IndexVal[s[i]] <= IndexVal[s[j]]
       IN  <<s[m]>> \o SortByIndexVal(SubSeq(s, 1, m - 1) \o SubSeq(s, m + 1, Len(s)))

\* Order in which Object.entries enumerates an object whose keys were
\* inserted in the order keys (each key once).
ObjectKeyOrder(keys) ==
  SortByIndexVal(Filter(keys, IsArrayIndex))
    \o Filter(keys, LAMBDA k : ~IsArrayIndex(k))

FloorIdOf(cam) == IF cam.floorId # "" THEN cam.floorId ELSE "unknown"

RoomKeyOf(cam) ==
  IF cam.room # "" THEN cam.room
  ELSE IF cam.name # "" THEN cam.name
  ELSE "Camera " \o cam.id

\* byFloor[floorId].floorName: the first truthy floorName of the floor's
\* cameras, else null (represented by "").
BucketFloorName(floorCameras) ==
  LET named == Filter(floorCameras, LAMBDA c : c.floorName # "")
  IN  IF named = <<>> THEN "" ELSE named[1].floorName

FloorLabel(n) == "Floor " \o ToString(n)

parseCameraData(json) ==
  LET cameras == json.cameras
      floorKeys == ObjectKeyOrder(FirstSeen(Map(cameras, FloorIdOf)))
      floorOf(index) ==
        LET floorId == floorKeys[index]
            floorCameras == Filter(cameras, LAMBDA c : FloorIdOf(c) = floorId)
            floorName == BucketFloorName(floorCameras)
            roomKeys == ObjectKeyOrder(FirstSeen(Map(floorCameras, RoomKeyOf)))
            roomOf(r) ==
              LET roomCameras == Filter(floorCameras, LAMBDA c : RoomKeyOf(c) = roomKeys[r])
              IN  [name |-> roomKeys[r],
                   cameras |-> roomCameras,
                   center |-> [latitude |-> roomCameras[1].latitude,
                               longitude |-> roomCameras[1].longitude]]
        IN  [floorId |-> floorId,
             floorName |-> IF floorName # "" THEN floorName
                           ELSE IF Len(floorKeys) = 1 THEN "All Rooms"
                           ELSE FloorLabel(index),
             rooms |-> [r \in 1..Len(roomKeys) |-> roomOf(r)],
             cameraCount |-> Len(floorCameras)]
      floors == [i \in 1..Len(floorKeys) |-> floorOf(i)]
  IN  [floors |-> floors,
       totalCameras |-> Len(cameras),
       totalRooms |-> SeqSum(Map(floors, LAMBDA f : Len(f.rooms)))]

\* the camera as the session holds it
SessionCam(cam) ==
  [newLatitude |-> Null, newLongitude |-> Null,
   repositioned |-> FALSE, repositionReason |-> NullS] @@ cam

EmptySurvey ==
  [ceilingHeight |-> "", ceilingHeightUnit |-> "meters",
   powerOutletLocation |-> "", mountingSurface |-> "",
   networkConnectivity |-> "", obstructions |-> "", notes |-> "",
   photos |-> <<>>, completed |-> FALSE, completedAt |-> Null]

RECURSIVE Flatten(_)
Flatten(ss) == IF ss = <<>> THEN <<>> ELSE Head(ss) \o Flatten(Tail(ss))

buildSurveyItems_oneBased(parsedData) ==
  LET perFloor(floor) ==
        Map(floor.rooms, LAMBDA room :
          [id |-> floor.floorId \o "__" \o room.name,
           floorId |-> floor.floorId,
           floorName |-> floor.floorName,
           roomName |-> room.name,
           cameras |-> Map(room.cameras, SessionCam),
           center |-> room.center,
           survey |-> EmptySurvey])
      flat == Flatten(Map(parsedData.floors, perFloor))
  IN  [i \in 1..Len(flat) |-> [index |-> i] @@ flat[i]]

buildSurveyItems(parsedData) ==
  LET perFloor(floor) ==
        Map(floor.rooms, LAMBDA room :
          [id |-> floor.floorId \o "__" \o room.name,
           floorId |-> floor.floorId,
           floorName |-> floor.floorName,
           roomName |-> room.name,
           cameras |-> Map(room.cameras, SessionCam),
           center |-> room.center,
           survey |-> EmptySurvey])
      flat == Flatten(Map(parsedData.floors, perFloor))
  IN  [i \in 1..Len(flat) |-> [index |-> i - 1] @@ flat[i]]

\* ------------------------------------------------------------------ state

VARIABLES
  \* App.jsx
  screen,          \* "loading", "setup", "survey" or "review"
  isLinkFlow,      \* the page was opened with a project code in its URL
  config,          \* the session's configuration; config.loaded is FALSE for null
  surveyItems,     \* the live array of room survey items
  surveyId,        \* the persistence key: the clock at session start, or Null
  isOnline,        \* navigator.onLine as the online/offline handlers track it
  saveStatus,      \* "saved", "saving" or "offline"
  timers,          \* pending autosave timeouts, each with the closure it runs
  \* environment
  now,             \* the wall clock
  cameraFile,      \* the placement file the setup screen or the API delivers
  signedIn,        \* googleAuth.isSignedIn()
  hasApiToken,     \* surveyApi.hasToken()
  photoReads,      \* file reads started by PhotoCapture and not yet resolved
  \* storage.js (localforage)
  survey_progress, \* the stored object 'survey_progress': session id -> data
  saveOps,         \* saveSurveyProgress calls in flight
  pending_uploads, \* the stored array 'pending_uploads'
  queueOps,        \* queue operations in flight
  \* ReviewScreen.jsx
  uploading, uploaded, uploadError, uploadProgress, queued,
  exported,        \* the export button was used on this review screen
  attempts,        \* submission attempts in flight: position, locals, history
  \* SurveyShell.jsx
  selectedFloor,   \* the floor tab chosen, or null
  selectedRoomId,  \* the room shown in SurveyView, or null
  showRoomList,    \* the room list is shown instead of a room
  \* history
  nextFrom,        \* the room whose Next Room button was used last, or null
  edits,           \* session mutations so far: the revision of surveyItems
  remoteLog,       \* remote operations of the attempt that ended last
  lastSave,        \* outcome of the saveSurveyProgress call that returned last
  nEnqueued,       \* queuePendingUpload calls so far
  downloads        \* the documents handed to the browser for download, each
                   \* with the revision of the session it was built from

appVars == <<screen, isLinkFlow, config, surveyItems, surveyId, isOnline,
             saveStatus, timers, edits>>
envVars == <<now, cameraFile, signedIn, hasApiToken, photoReads>>
saveVars == <<survey_progress, saveOps, lastSave>>
queueVars == <<pending_uploads, queueOps, nEnqueued>>
reviewVars == <<uploading, uploaded, uploadError, uploadProgress, queued,
                exported, attempts, remoteLog, downloads>>
shellVars == <<selectedFloor, selectedRoomId, showRoomList, nextFrom>>
vars == <<appVars, envVars, saveVars, queueVars, reviewVars, shellVars>>

NoConfig == [loaded |-> FALSE, cameraJson |-> [cameras |-> <<>>],
             isLinkFlow |-> FALSE, hasGdrive |-> FALSE]

NoSave == [ok |-> TRUE]

\* The state after App is constructed: no session yet.  A link-flow page
\* holding a valid token starts on the loading screen, the classic flow on
\* the setup screen.  The dataset the technician will hand over is chosen by
\* the specification.
InitApp ==
  /\ isLinkFlow \in BOOLEAN
  /\ screen = IF isLinkFlow THEN "loading" ELSE "setup"
  /\ config = NoConfig
  /\ surveyItems = <<>>
  /\ surveyId = Null
  /\ isOnline \in BOOLEAN
  /\ saveStatus = "saved"
  /\ timers = <<>>
  /\ now = 0
  /\ signedIn = FALSE
  /\ hasApiToken = isLinkFlow
  /\ photoReads = <<>>
  /\ survey_progress = <<>>
  /\ saveOps = EmptyBag
  /\ pending_uploads = <<>>
  /\ queueOps = EmptyBag
  /\ uploading = FALSE
  /\ uploaded = FALSE
  /\ uploadError = ""
  /\ uploadProgress = ""
  /\ queued = FALSE
  /\ exported = FALSE
  /\ attempts = EmptyBag
  /\ edits = 0
  /\ remoteLog = <<>>
  /\ lastSave = NoSave
  /\ nEnqueued = 0
  /\ downloads = <<>>
  /\ selectedFloor = NullS
  /\ selectedRoomId = NullS
  /\ showRoomList = TRUE
  /\ nextFrom = NullS

Init == InitApp /\ cameraFile \in Datasets

\* ------------------------------------------------------- autosave effect

\* An effect whose cleanup does not clear its timeout.
EffectCleanup_keepsTimer(ts) == ts

\* The cleanup of the previous run of the effect: clearTimeout(timer).  Every
\* run's timeout is cleared by the next run's cleanup, so none stays pending.
EffectCleanup(ts) == <<>>

\* The auto-save effect, run after a render in which surveyItems, surveyId,
\* config or isOnline changed: the values of the variables after the step.
AutosaveEffect(items, id, cfg, online, rev) ==
  IF id = Null \/ Len(items) = 0
  THEN /\ timers' = EffectCleanup(timers)
       /\ saveStatus' = saveStatus
  ELSE /\ timers' = Append(EffectCleanup(timers),
                           [surveyId |-> id, items |-> items, config |-> cfg,
                            isOnline |-> online, rev |-> rev])
       /\ saveStatus' = "saving"

\* ------------------------------------------------------------- App.jsx

\* An update that inserts a room when no item has the id.
handleUpdateSurveyItem_upsert(prev, itemId, updates) ==
  IF \E i \in 1..Len(prev) : prev[i].id = itemId
  THEN [i \in 1..Len(prev) |->
          IF prev[i].id = itemId THEN updates @@ prev[i] ELSE prev[i]]
  ELSE Append(prev, updates @@ [id |-> itemId])

\* setSurveyItems(prev => prev.map(item => item.id === itemId ? {...item, ...updates} : item))
handleUpdateSurveyItem(prev, itemId, updates) ==
  Map(prev, LAMBDA item : IF item.id = itemId THEN updates @@ item ELSE item)

\* handleUpdateCamera without the camera id test: the update lands on every
\* camera of the room.
handleUpdateCamera_everyCamera(prev, itemId, cameraId, cameraUpdates) ==
  Map(prev, LAMBDA item :
    IF item.id # itemId THEN item
    ELSE [item EXCEPT !.cameras =
            Map(item.cameras, LAMBDA cam : cameraUpdates @@ cam)])

handleUpdateCamera(prev, itemId, cameraId, cameraUpdates) ==
  Map(prev, LAMBDA item :
    IF item.id # itemId THEN item
    ELSE [item EXCEPT !.cameras =
            Map(item.cameras, LAMBDA cam :
              IF cam.id = cameraId THEN cameraUpdates @@ cam ELSE cam)])

\* A session mutation: the new array is set, the component renders again
\* and the auto-save effect runs.
SetSurveyItems(next) ==
  /\ surveyItems' = next
  /\ edits' = edits + 1
  /\ AutosaveEffect(next, surveyId, config, isOnline, edits + 1)
  /\ UNCHANGED <<screen, isLinkFlow, config, surveyId, isOnline>>

StartSession(cameraJson, linkFlow, hasGdrive) ==
  LET parsed == parseCameraData(cameraJson)
      items == buildSurveyItems(parsed)
      cfg == [loaded |-> TRUE, cameraJson |-> cameraJson,
              isLinkFlow |-> linkFlow, hasGdrive |-> hasGdrive]
  IN  /\ config' = cfg
      /\ surveyItems' = items
      /\ surveyId' = now
      /\ screen' = "survey"
      /\ edits' = 0
      /\ AutosaveEffect(items, now, cfg, isOnline, 0)
      /\ UNCHANGED <<isLinkFlow, isOnline>>

\* Classic flow, setup screen: the technician signs in to Google.
handleGoogleSignIn ==
  /\ screen = "setup"
  /\ ~signedIn
  /\ signedIn' = TRUE
  /\ UNCHANGED <<now, cameraFile, hasApiToken, photoReads>>
  /\ UNCHANGED <<appVars, saveVars, queueVars, reviewVars, shellVars>>

\* Classic flow: the setup screen hands over the dataset and, when the
\* technician signed in and picked a Drive project, that project.
handleSetupComplete ==
  /\ screen = "setup"
  /\ \E gdrive \in {FALSE, signedIn} :
       StartSession(cameraFile, FALSE, gdrive)
  /\ UNCHANGED envVars
  /\ UNCHANGED <<saveVars, queueVars, reviewVars, shellVars>>

\* Link flow: the project and its cameras arrive from the survey API.
loadProjectFromAPI ==
  /\ screen = "loading"
  /\ StartSession(cameraFile, TRUE, FALSE)
  /\ UNCHANGED envVars
  /\ UNCHANGED <<saveVars, queueVars, reviewVars, shellVars>>

\* setScreen(SCREENS.REVIEW), called from the room from (null for the
\* room list)
GoToReview(from) ==
  /\ screen = "survey"
  /\ screen' = "review"
  /\ UNCHANGED <<isLinkFlow, config, surveyItems, surveyId, isOnline,
                 saveStatus, timers, edits>>
  /\ UNCHANGED <<envVars, saveVars, queueVars>>
  \* ReviewScreen mounts with fresh state
  /\ uploading' = FALSE /\ uploaded' = FALSE /\ uploadError' = ""
  /\ uploadProgress' = "" /\ queued' = FALSE /\ exported' = FALSE
  /\ UNCHANGED <<attempts, remoteLog, downloads>>
  \* SurveyShell unmounts; its next mount starts from the initial values
  /\ selectedFloor' = NullS /\ selectedRoomId' = NullS /\ showRoomList' = TRUE
  /\ nextFrom' = IF from # NullS THEN from ELSE nextFrom

handleGoToReview == GoToReview(NullS)

\* The asynchronous call op outlives the ReviewScreen that started it: its
\* later setState calls land on an unmounted component and are dropped.
Unmounted(op) == [op EXCEPT !.mounted = FALSE]

\* ReviewScreen unmounts; the attempts and queue calls it started go on.
handleBackToSurvey ==
  /\ screen = "review"
  /\ screen' = "survey"
  /\ attempts' = BagMap(attempts, Unmounted)
  /\ queueOps' = BagMap(queueOps, Unmounted)
  /\ UNCHANGED <<isLinkFlow, config, surveyItems, surveyId, isOnline,
                 saveStatus, timers, edits>>
  /\ UNCHANGED <<envVars, saveVars, pending_uploads, nEnqueued>>
  /\ UNCHANGED <<uploading, uploaded, uploadError, uploadProgress, queued,
                 exported, remoteLog, downloads, shellVars>>

\* window 'online' / 'offline' events
handleOnline ==
  /\ ~isOnline
  /\ isOnline' = TRUE
  /\ AutosaveEffect(surveyItems, surveyId, config, TRUE, edits)
  /\ UNCHANGED <<screen, isLinkFlow, config, surveyItems, surveyId, edits>>
  /\ UNCHANGED <<envVars, saveVars, queueVars, reviewVars, shellVars>>

handleOffline ==
  /\ isOnline
  /\ isOnline' = FALSE
  /\ AutosaveEffect(surveyItems, surveyId, config, FALSE, edits)
  /\ UNCHANGED <<screen, isLinkFlow, config, surveyItems, surveyId, edits>>
  /\ UNCHANGED <<envVars, saveVars, queueVars, reviewVars, shellVars>>

\* --------------------------------------------------------- SurveyShell.jsx

\* lines 45-46: the progress counts
completed(items) == Count(items, LAMBDA i : i.survey.completed)
total(items) == Len(items)

\* A percentage that drops the fraction instead of rounding it.
progressPct_truncated(items) ==
  IF total(items) > 0 THEN (100 * completed(items)) \div total(items) ELSE 0

\* line 47: total > 0 ? Math.round((completed / total) * 100) : 0, the
\* quotient rounded to the nearest integer, a half upwards
progressPct(items) ==
  IF total(items) > 0
  THEN (200 * completed(items) + total(items)) \div (2 * total(items))
  ELSE 0

\* the floor ids of the session in the order of their first room
floors(items) == FirstSeen(Map(items, LAMBDA i : i.floorId))

\* line 41: selectedFloor || (floors.length > 0 ? floors[0].id : null)
activeFloor(items, floor) ==
  IF floor # NullS /\ floor # "" THEN floor
  ELSE IF floors(items) # <<>> THEN Head(floors(items)) ELSE NullS

\* line 43: surveyItems.find((i) => i.id === selectedRoomId), as the
\* sequence of the items found first
selectedItem(items, roomId) ==
  LET found == Filter(items, LAMBDA i : i.id = roomId)
  IN  IF found = <<>> THEN <<>> ELSE <<Head(found)>>

\* line 93: SurveyView is rendered for the selected room, the room list
\* otherwise
RoomShown == ~showRoomList /\ selectedItem(surveyItems, selectedRoomId) # <<>>

\* a handler of SurveyShell that leaves the session and the screen alone
ShellStep ==
  /\ screen = "survey"
  /\ UNCHANGED <<appVars, envVars, saveVars, queueVars, reviewVars>>

\* a floor tab of the room list, shown when there are several floors
setSelectedFloor ==
  /\ ~RoomShown
  /\ Len(floors(surveyItems)) > 1
  /\ \E f \in 1..Len(floors(surveyItems)) :
       selectedFloor' = floors(surveyItems)[f]
  /\ UNCHANGED <<selectedRoomId, showRoomList, nextFrom>>
  /\ ShellStep

\* a room of the active floor is picked in the room list
handleSelectRoom ==
  /\ ~RoomShown
  /\ \E i \in 1..Len(surveyItems) :
       /\ surveyItems[i].floorId = activeFloor(surveyItems, selectedFloor)
       /\ selectedRoomId' = surveyItems[i].id
  /\ showRoomList' = FALSE
  /\ UNCHANGED <<selectedFloor, nextFrom>>
  /\ ShellStep

handleBackToList ==
  /\ RoomShown
  /\ showRoomList' = TRUE
  /\ selectedRoomId' = NullS
  /\ UNCHANGED <<selectedFloor, nextFrom>>
  /\ ShellStep

\* A scan that stops at the end of the list instead of wrapping around.
remaining_noWrap(items, roomId) ==
  LET currentIndex == CHOOSE k \in 1..Len(items) : items[k].id = roomId
  IN  SubSeq(items, currentIndex + 1, Len(items))

\* lines 77-81: the rooms after the current one, then the rooms before it
remaining(items, roomId) ==
  LET currentIndex == CHOOSE k \in 1..Len(items) :
                        /\ items[k].id = roomId
                        /\ \A j \in 1..(k - 1) : items[j].id # roomId
  IN  SubSeq(items, currentIndex + 1, Len(items))
        \o SubSeq(items, 1, currentIndex - 1)

\* line 82: remaining.find((i) => !i.survey.completed), as the sequence of
\* the rooms found
nextIncomplete(items, roomId) ==
  Filter(remaining(items, roomId), LAMBDA i : ~i.survey.completed)

\* The Next Room button of the room shown.
handleNextRoom ==
  /\ RoomShown
  /\ IF nextIncomplete(surveyItems, selectedRoomId) # <<>>
     THEN /\ selectedFloor' = Head(nextIncomplete(surveyItems, selectedRoomId)).floorId
          /\ selectedRoomId' = Head(nextIncomplete(surveyItems, selectedRoomId)).id
          /\ UNCHANGED showRoomList
          /\ ShellStep
     ELSE GoToReview(selectedRoomId)
  /\ nextFrom' = selectedRoomId

\* The Review & Submit button of the room list, shown once a room is
\* completed.
ReviewButton ==
  /\ ~RoomShown
  /\ completed(surveyItems) > 0
  /\ handleGoToReview

\* ---------------------------------------------------------- SurveyView.jsx

\* the session mutation leaves everything outside App's state alone
Mutation(next) ==
  /\ screen = "survey"
  /\ edits < MaxEdits
  /\ SetSurveyItems(next)
  /\ UNCHANGED <<envVars, saveVars, queueVars, reviewVars, shellVars>>

FormValues == {"", "3"}

handleSurveyChange ==
  \E i \in 1..Len(surveyItems), value \in FormValues :
    LET item == surveyItems[i]
    IN  /\ item.survey.ceilingHeight # value
        /\ Mutation(handleUpdateSurveyItem(surveyItems, item.id,
             [survey |-> [ceilingHeight |-> value] @@ item.survey]))

handleMarkComplete ==
  \E i \in 1..Len(surveyItems) :
    LET item == surveyItems[i]
    IN  Mutation(handleUpdateSurveyItem(surveyItems, item.id,
          [survey |-> [completed |-> ~item.survey.completed,
                       completedAt |-> IF ~item.survey.completed THEN now ELSE Null]
                      @@ item.survey]))

Reasons == {"", "blocked"}

\* RepositionModal: newPositionRef.current before any click on the map
NoClick == [latitude |-> Null, longitude |-> Null]

\* A modal whose Confirm button calls onConfirm without a clicked position.
handleConfirm_unguarded(newPosition) == TRUE

\* RepositionModal.handleConfirm: onConfirm is called only if
\* newPositionRef.current is set
handleConfirm(newPosition) == newPosition # NoClick

\* A reposition that overwrites the camera's imported coordinates.
RepositionUpdate_inPlace(latitude, longitude, reason) ==
  [latitude |-> latitude, longitude |-> longitude,
   newLatitude |-> latitude, newLongitude |-> longitude,
   repositioned |-> TRUE,
   repositionReason |-> IF reason # "" THEN reason ELSE NullS]

\* the camera update handleRepositionConfirm hands to onUpdateCamera
RepositionUpdate(latitude, longitude, reason) ==
  [newLatitude |-> latitude,
   newLongitude |-> longitude,
   repositioned |-> TRUE,
   repositionReason |-> IF reason # "" THEN reason ELSE NullS]

\* The technician confirms the modal of camera c of the room shown.
handleRepositionConfirm ==
  \E i \in 1..Len(surveyItems), position \in Positions \cup {NoClick},
     reason \in Reasons :
    \E c \in 1..Len(surveyItems[i].cameras) :
      LET item == surveyItems[i]
      IN  /\ handleConfirm(position)
          /\ Mutation(handleUpdateCamera(surveyItems, item.id, item.cameras[c].id,
                RepositionUpdate(position.latitude, position.longitude, reason)))

\* The remove button of photo k of a room: the photos without that one.
handleRemovePhoto ==
  \E i \in 1..Len(surveyItems) :
    \E k \in 1..Len(surveyItems[i].survey.photos) :
      LET item == surveyItems[i]
      IN  Mutation(handleUpdateSurveyItem(surveyItems, item.id,
            [survey |-> [photos |-> RemoveAt(item.survey.photos, k)]
                          @@ item.survey]))

\* -------------------------------------------------------- PhotoCapture.jsx

PhotoLabels == {"General"}

\* the n-th file of a selection, as FileReader delivers it
Photo(label, n) ==
  [dataUrl |-> "data:" \o ToString(n), label |-> label, timestamp |-> now,
   fileName |-> "IMG" \o ToString(n)]

\* The technician picks n files for the room shown.  The reads run in the
\* background; their continuation holds the onAdd of this render, and with
\* it this render's item.survey.
handleFileChange ==
  /\ screen = "survey"
  /\ Len(photoReads) < MaxReads
  /\ \E i \in 1..Len(surveyItems), n \in 1..MaxPhotos, label \in PhotoLabels :
       photoReads' = Append(photoReads,
         [itemId |-> surveyItems[i].id, survey |-> surveyItems[i].survey,
          label |-> label, n |-> n])
  /\ UNCHANGED <<now, cameraFile, signedIn, hasApiToken>>
  /\ UNCHANGED <<appVars, saveVars, queueVars, reviewVars, shellVars>>

\* Promise.all resolves: onAdd(newPhotos), that is SurveyView's
\* handleAddPhotos of the render that started the reads.
handleAddPhotos ==
  /\ edits < MaxEdits
  /\ \E r \in 1..Len(photoReads) :
       LET rd == photoReads[r]
           newPhotos == [k \in 1..rd.n |-> Photo(rd.label, k)]
       IN  /\ SetSurveyItems(handleUpdateSurveyItem(surveyItems, rd.itemId,
                [survey |-> [photos |-> rd.survey.photos \o newPhotos] @@ rd.survey]))
           /\ photoReads' = RemoveAt(photoReads, r)
  /\ UNCHANGED <<now, cameraFile, signedIn, hasApiToken>>
  /\ UNCHANGED <<saveVars, queueVars, reviewVars, shellVars>>

\* -------------------------------------------------------- ReviewScreen.jsx

\* line 103
totalPhotos(items) == SeqSum(Map(items, LAMBDA i : Len(i.survey.photos)))

\* lines 104-107
repositioned(items) ==
  SeqSum(Map(items, LAMBDA i : Count(i.cameras, LAMBDA c : c.repositioned)))

\* line 118
canUpload(cfg) ==
  \/ cfg.isLinkFlow /\ hasApiToken
  \/ ~cfg.isLinkFlow /\ cfg.hasGdrive /\ signedIn

\* A placements file that lists the repositioned cameras only.
buildUpdatedPlacements_movedOnly(originalCameraJson, items) ==
  LET moved == Filter(Flatten(Map(items, LAMBDA i : i.cameras)),
                      LAMBDA c : c.repositioned)
      updated(cam) ==
        LET update == Filter(moved, LAMBDA u : u.id = cam.id)
        IN  [cam EXCEPT !.latitude = Last(update).newLatitude,
                        !.longitude = Last(update).newLongitude]
  IN  [originalCameraJson EXCEPT !.cameras =
         Map(Filter(originalCameraJson.cameras,
                    LAMBDA cam : \E k \in 1..Len(moved) : moved[k].id = cam.id),
             updated)]

\* cameraUpdates[cam.id] = cam for every repositioned camera, a later one
\* replacing an earlier one of the same id; then the original cameras with
\* the coordinates of their update.
buildUpdatedPlacements(originalCameraJson, items) ==
  LET moved == Filter(Flatten(Map(items, LAMBDA i : i.cameras)),
                      LAMBDA c : c.repositioned)
      updated(cam) ==
        LET update == Filter(moved, LAMBDA u : u.id = cam.id)
        IN  IF update = <<>> THEN cam
            ELSE [cam EXCEPT !.latitude = Last(update).newLatitude,
                             !.longitude = Last(update).newLongitude]
  IN  [originalCameraJson EXCEPT !.cameras = Map(originalCameraJson.cameras, updated)]

\* item.roomName.replace(/\s+/g, '-').toLowerCase() on the room names of
\* the datasets
roomSlug ==
  ("Lobby" :> "lobby") @@ ("Hall" :> "hall") @@ ("Office" :> "office")
    @@ ("Door" :> "door") @@ ("Camera k3" :> "camera-k3")

\* new Date().toISOString().slice(0, 10)
DateStr(t) == "day" \o ToString(t)

\* `${dateStr}_${roomSlug}_${photo.label || 'photo'}_${i + 1}.jpg`
photoFilename(dateStr, item, i) ==
  dateStr \o "_" \o roomSlug[item.roomName] \o "_"
    \o (IF item.survey.photos[i].label # "" THEN item.survey.photos[i].label ELSE "photo")
    \o "_" \o ToString(i) \o ".jpg"

\* the photo uploads of an attempt in the order of the two nested loops
PhotoQueue(dateStr, items) ==
  Flatten(Map(items, LAMBDA item :
    [i \in 1..Len(item.survey.photos) |-> photoFilename(dateStr, item, i)]))

\* haversineDistance on the whole-degree grid of the datasets and of
\* Positions, in tenths of a metre: Math.round(distance * 10) of the
\* great-circle distance on a sphere of radius 6371000 m.
haversineDistance(lat1, lng1, lat2, lng2) ==
  IF lat1 = lat2 /\ lng1 = lng2 THEN 0
  ELSE IF lat1 = lat2 THEN (IF lat1 = 0 THEN 1111949 ELSE 1111780)
  ELSE IF lng1 = lng2 THEN 1111949
  ELSE 1572494

\* A change list with a record for every session camera, moved or not.
buildCameraChanges_everyCamera(originalCameraJson, items) ==
  LET change(item, cam) ==
        LET origs == Filter(originalCameraJson.cameras, LAMBDA o : o.id = cam.id)
        IN  [id |-> cam.id,
             name |-> IF cam.name # "" THEN cam.name ELSE cam.id,
             room |-> item.roomName,
             reason |-> IF cam.repositionReason # "" THEN cam.repositionReason
                        ELSE NullS,
             original |-> IF origs # <<>>
                          THEN <<Last(origs).latitude, Last(origs).longitude>>
                          ELSE <<>>,
             new |-> <<cam.newLatitude, cam.newLongitude>>,
             distanceMeters |->
               IF origs # <<>>
               THEN haversineDistance(Last(origs).latitude, Last(origs).longitude,
                                      cam.newLatitude, cam.newLongitude)
               ELSE Null]
  IN  Flatten(Map(items, LAMBDA item :
        Map(item.cameras, LAMBDA cam : change(item, cam))))

\* One record per repositioned session camera, in room order and camera
\* order; originalMap[cam.id] is the last dataset camera of that id.
\* distanceMeters is held in tenths of a metre.
buildCameraChanges(originalCameraJson, items) ==
  LET change(item, cam) ==
        LET origs == Filter(originalCameraJson.cameras, LAMBDA o : o.id = cam.id)
        IN  [id |-> cam.id,
             name |-> IF cam.name # "" THEN cam.name ELSE cam.id,
             room |-> item.roomName,
             reason |-> IF cam.repositionReason # "" THEN cam.repositionReason
                        ELSE NullS,
             original |-> IF origs # <<>>
                          THEN <<Last(origs).latitude, Last(origs).longitude>>
                          ELSE <<>>,
             new |-> <<cam.newLatitude, cam.newLongitude>>,
             distanceMeters |->
               IF origs # <<>>
               THEN haversineDistance(Last(origs).latitude, Last(origs).longitude,
                                      cam.newLatitude, cam.newLongitude)
               ELSE Null]
  IN  Flatten(Map(items, LAMBDA item :
        Map(Filter(item.cameras, LAMBDA c : c.repositioned),
            LAMBDA cam : change(item, cam))))

\* ----------------------------------------- export document (storage.js)

\* the site metadata the setup screen or the project configuration supplies
MapId == "map-1"
SiteName == "Site One"

\* One camera of the export document.  A position is the pair
\* <<latitude, longitude>>, a null position the empty tuple.  The datasets
\* carry no height, rotation, fieldOfView, range or tilt: these entries are
\* undefined and absent from the serialised document.
ExportCamera(cam) ==
  [id |-> cam.id, name |-> cam.name, mountType |-> cam.mountType,
   originalPosition |-> <<cam.latitude, cam.longitude>>,
   newPosition |-> IF cam.repositioned
                   THEN <<cam.newLatitude, cam.newLongitude>> ELSE <<>>,
   repositioned |-> cam.repositioned,
   repositionReason |-> IF cam.repositionReason # "" THEN cam.repositionReason
                        ELSE NullS]

\* storage.js lines 175-179: { label, timestamp, url: p.s3Url || p.dataUrl }
ExportPhoto(p) ==
  [label |-> p.label, timestamp |-> p.timestamp,
   url |-> IF "s3Url" \in DOMAIN p /\ p.s3Url # "" THEN p.s3Url ELSE p.dataUrl]

ExportRoom(item) ==
  [floorId |-> item.floorId,
   roomName |-> item.roomName,
   cameras |-> Map(item.cameras, ExportCamera),
   survey |->
     [ceilingHeight |-> item.survey.ceilingHeight,
      ceilingHeightUnit |-> item.survey.ceilingHeightUnit,
      powerOutletLocation |-> item.survey.powerOutletLocation,
      mountingSurface |-> item.survey.mountingSurface,
      networkConnectivity |-> item.survey.networkConnectivity,
      obstructions |-> item.survey.obstructions,
      notes |-> item.survey.notes,
      photoCount |-> Len(item.survey.photos),
      photos |-> Map(item.survey.photos, ExportPhoto),
      completed |-> item.survey.completed,
      completedAt |-> item.survey.completedAt]]

\* exportSurveyPayload(surveyItems, metadata) called when the clock reads t
exportSurveyPayload(items, metadata, t) ==
  [surveyId |-> metadata.surveyId,
   mapId |-> metadata.mapId,
   siteName |-> metadata.siteName,
   exportedAt |-> t,
   summary |->
     [totalRooms |-> Len(items),
      completedRooms |-> Count(items, LAMBDA i : i.survey.completed),
      totalCameras |-> SeqSum(Map(items, LAMBDA i : Len(i.cameras))),
      repositionedCameras |->
        SeqSum(Map(items, LAMBDA i : Count(i.cameras, LAMBDA c : c.repositioned)))],
   rooms |-> Map(items, ExportRoom)]

\* ReviewScreen's buildPayload, lines 122-136, called when the clock reads t
buildPayload(items, cfg, t) ==
  LET totalCameras == SeqSum(Map(items, LAMBDA i : Len(i.cameras)))
  IN  [cameraChanges |->
         [totalCameras |-> totalCameras,
          repositioned |-> repositioned(items),
          unchanged |-> totalCameras - repositioned(items),
          changes |-> buildCameraChanges(cfg.cameraJson, items)]]
      @@ exportSurveyPayload(items,
           [surveyId |-> "survey_" \o ToString(t), mapId |-> MapId,
            siteName |-> SiteName], t)

\* The upload handlers' loop over payload.rooms (lines 196-207, 263-274):
\* every photo entry becomes { label, timestamp, filename }.  The link flow
\* takes the names from the list it built in room and photo order, the
\* classic flow builds them per room; both give photoFilename.
WithPhotoFilenames(payload, dateStr, items) ==
  [payload EXCEPT !.rooms =
     [r \in 1..Len(payload.rooms) |->
        [payload.rooms[r] EXCEPT !.survey.photos =
           [i \in 1..Len(payload.rooms[r].survey.photos) |->
              [label |-> payload.rooms[r].survey.photos[i].label,
               timestamp |-> payload.rooms[r].survey.photos[i].timestamp,
               filename |-> photoFilename(dateStr, items[r], i)]]]]]

\* One entry of an attempt's history: the remote operation op was issued,
\* answered (ok) or rejected (fail, with the error's message and the
\* connectivity at that moment).
Event(ev, op, name, msg) ==
  [ev |-> ev, op |-> op, name |-> name, msg |-> msg, online |-> isOnline]

\* name under which step pc of the attempt stores its file
StepName(pc, k, dateStr, items) ==
  IF pc = "json" THEN "survey_" \o dateStr \o ".json"
  ELSE IF pc = "placements" THEN "camera-placements-final_" \o dateStr \o ".json"
  ELSE PhotoQueue(dateStr, items)[k]

\* setUploadProgress at the head of each step
ProgressText(pc, k, items) ==
  IF pc = "json" THEN "Uploading survey data..."
  ELSE IF pc = "placements" THEN "Uploading final camera placements..."
  ELSE "Uploading photo " \o ToString(k) \o " of " \o ToString(totalPhotos(items)) \o "..."

\* A photo loop that stops one photo short.
PhotoStep_skipLast(k, items) ==
  IF k < totalPhotos(items) THEN [pc |-> "photo", k |-> k]
  ELSE [pc |-> "done", k |-> 0]

\* the k-th photo upload, or the end of the handler
PhotoStep(k, items) ==
  IF k <= totalPhotos(items) THEN [pc |-> "photo", k |-> k]
  ELSE [pc |-> "done", k |-> 0]

\* A handler that uploads the photos before the placements file.
StepAfter_photosFirst(pc, k, items, cfg) ==
  LET placements == IF repositioned(items) > 0
                    THEN [pc |-> "placements", k |-> 0]
                    ELSE [pc |-> "done", k |-> 0]
  IN  IF pc = "json"
      THEN IF totalPhotos(items) > 0 THEN [pc |-> "photo", k |-> 1] ELSE placements
      ELSE IF pc = "photo"
      THEN IF k < totalPhotos(items) THEN [pc |-> "photo", k |-> k + 1] ELSE placements
      ELSE [pc |-> "done", k |-> 0]

\* Where the handler goes when the awaited call of step pc resolved: after
\* the survey JSON the placements file if a camera moved (the file built
\* from cfg.cameraJson is never null here), then the photos one by one.
StepAfter(pc, k, items, cfg) ==
  IF pc = "json"
  THEN IF repositioned(items) > 0
       THEN [pc |-> "placements", k |-> 0]
       ELSE PhotoStep(1, items)
  ELSE IF pc = "placements" THEN PhotoStep(1, items)
  ELSE PhotoStep(k + 1, items)

\* The Submit button, shown when canUpload && isOnline and disabled while
\* uploading || uploaded: handleUploadViaApi (link flow) or
\* handleUploadToGDrive (classic flow) runs up to its first await.
handleUpload ==
  /\ screen = "review"
  /\ canUpload(config) /\ isOnline
  /\ ~(uploading \/ uploaded)
  /\ BagCardinality(attempts) < MaxAttempts
  /\ uploading' = TRUE
  /\ uploadError' = ""
  /\ uploadProgress' = ProgressText("json", 0, surveyItems)
  /\ attempts' = attempts (+) One(
       [pc |-> "json", k |-> 0, items |-> surveyItems, config |-> config,
        dateStr |-> DateStr(now), mounted |-> TRUE,
        payload |-> WithPhotoFilenames(buildPayload(surveyItems, config, now),
                                       DateStr(now), surveyItems),
        log |-> << Event("issue", "json",
                         StepName("json", 0, DateStr(now), surveyItems), "") >>])
  /\ UNCHANGED <<uploaded, queued, exported, remoteLog, downloads>>
  /\ UNCHANGED <<appVars, envVars, saveVars, queueVars, shellVars>>

\* The awaited call of attempt a resolved: the handler goes on to its next
\* await, or past the loops to setUploaded(true) and setUploading(false).
StepOk(a) ==
  LET next == StepAfter(a.pc, a.k, a.items, a.config)
      logged == Append(a.log,
                  Event("ok", a.pc, StepName(a.pc, a.k, a.dateStr, a.items), ""))
  IN  /\ IF next.pc = "done"
         THEN /\ attempts' = attempts (-) One(a)
              /\ remoteLog' = logged
              /\ uploadProgress' = IF a.mounted THEN "" ELSE uploadProgress
              /\ uploaded' = IF a.mounted THEN TRUE ELSE uploaded
              /\ uploading' = IF a.mounted THEN FALSE ELSE uploading
         ELSE /\ attempts' = (attempts (-) One(a)) (+) One(
                   [a EXCEPT !.pc = next.pc, !.k = next.k,
                             !.log = Append(logged,
                               Event("issue", next.pc,
                                     StepName(next.pc, next.k, a.dateStr, a.items), ""))])
              /\ uploadProgress' = IF a.mounted
                                   THEN ProgressText(next.pc, next.k, a.items)
                                   ELSE uploadProgress
              /\ UNCHANGED <<uploaded, uploading, remoteLog>>
      /\ UNCHANGED <<uploadError, queued, exported, downloads>>
      /\ UNCHANGED <<appVars, envVars, saveVars, queueVars, shellVars>>

\* saveSurveyDataApi / uploadJsonFile of the survey JSON resolved
UploadJsonOk ==
  \E a \in BagToSet(attempts) : a.pc = "json" /\ StepOk(a)

\* saveFinalPlacementsApi / uploadJsonFile of the placements resolved
UploadPlacementsOk ==
  \E a \in BagToSet(attempts) : a.pc = "placements" /\ StepOk(a)

\* uploadPhotoApi / uploadPhotoGDrive resolved
UploadPhotoOk ==
  \E a \in BagToSet(attempts) : a.pc = "photo" /\ StepOk(a)

\* err.message of a rejected call: the network error of fetch, or the
\* message built from the response status
ErrorMessages(a) ==
  { "Failed to fetch",
    IF a.config.isLinkFlow THEN "Request failed: 500"
    ELSE IF a.pc = "photo" THEN "Photo upload failed: 500"
    ELSE "Upload failed: 500" }

\* The awaited call rejected: the catch block, then setUploading(false).
UploadStepFails ==
  \E a \in BagToSet(attempts) : \E msg \in ErrorMessages(a) :
    /\ attempts' = attempts (-) One(a)
    /\ remoteLog' = Append(a.log,
         Event("fail", a.pc, StepName(a.pc, a.k, a.dateStr, a.items), msg))
    /\ uploadError' = IF a.mounted THEN msg ELSE uploadError
    /\ uploadProgress' = IF a.mounted THEN "" ELSE uploadProgress
    /\ uploading' = IF a.mounted THEN FALSE ELSE uploading
    /\ UNCHANGED <<uploaded, queued, exported, downloads>>
    /\ UNCHANGED <<appVars, envVars, saveVars, queueVars, shellVars>>

\* The Download JSON button, always shown on the review screen:
\* handleExportJSON serialises buildPayload() as it is into the file.
handleExportJSON ==
  /\ screen = "review"
  /\ Len(downloads) < MaxDownloads
  /\ downloads' = Append(downloads,
       [rev |-> edits, document |-> buildPayload(surveyItems, config, now)])
  /\ exported' = TRUE
  /\ UNCHANGED <<uploading, uploaded, uploadError, uploadProgress, queued,
                 attempts, remoteLog>>
  /\ UNCHANGED <<appVars, envVars, saveVars, queueVars, shellVars>>

\* ------------------------------------- pending upload queue (storage.js)

\* ReviewScreen line 498: the "Save & Queue Upload for Later" button shown
\* for every review screen that is offline, also one of the link flow.
QueueButtonShown_anyFlow(cfg, online, q) == ~online /\ ~q

\* ReviewScreen line 498: the "Save & Queue Upload for Later" button
QueueButtonShown(cfg, online, q) ==
  ~cfg.isLinkFlow /\ cfg.hasGdrive /\ ~online /\ ~q

NoUpload == [surveyItems |-> <<>>, repositioned |-> 0, totalPhotos |-> 0]

\* `upload_${Date.now()}`
UploadId(t) == "upload_" \o ToString(t)

\* A call of the queue API as it starts.  queuePendingUpload and
\* removePendingUpload first await getItem; clearPendingUploads goes
\* straight to setItem with an empty array.
QueueCall(kind, uploadData, uploadId, mounted) ==
  [kind |-> kind, pc |-> IF kind = "clear" THEN "setItem" ELSE "getItem",
   uploadData |-> uploadData, uploadId |-> uploadId, queue |-> <<>>,
   mounted |-> mounted]

\* handleQueueUpload up to its await: queuePendingUpload({ payload,
\* surveyItems, config, repositioned, totalPhotos }).
handleQueueUpload ==
  /\ screen = "review"
  /\ QueueButtonShown(config, isOnline, queued)
  /\ nEnqueued < MaxEnqueues
  /\ BagCardinality(queueOps) < MaxInflight
  /\ queueOps' = queueOps (+) One(QueueCall("enqueue",
       [payload |-> buildPayload(surveyItems, config, now),
        surveyItems |-> surveyItems,
        config |-> [siteName |-> SiteName, hasGdrive |-> config.hasGdrive,
                    cameraJson |-> config.cameraJson, mapId |-> MapId],
        repositioned |-> repositioned(surveyItems),
        totalPhotos |-> totalPhotos(surveyItems)], "", TRUE))
  /\ nEnqueued' = nEnqueued + 1
  /\ UNCHANGED pending_uploads
  /\ UNCHANGED <<appVars, envVars, saveVars, reviewVars, shellVars>>

\* removePendingUpload(uploadId), an exported operation of the queue
removePendingUpload ==
  /\ BagCardinality(queueOps) < MaxInflight
  /\ \E t \in 0..MaxClock :
       queueOps' = queueOps (+) One(QueueCall("remove", NoUpload, UploadId(t), FALSE))
  /\ UNCHANGED <<pending_uploads, nEnqueued>>
  /\ UNCHANGED <<appVars, envVars, saveVars, reviewVars, shellVars>>

\* clearPendingUploads(), an exported operation of the queue
clearPendingUploads ==
  /\ BagCardinality(queueOps) < MaxInflight
  /\ queueOps' = queueOps (+) One(QueueCall("clear", NoUpload, "", FALSE))
  /\ UNCHANGED <<pending_uploads, nEnqueued>>
  /\ UNCHANGED <<appVars, envVars, saveVars, reviewVars, shellVars>>

\* queue.push({ ...uploadData, queuedAt: new Date().toISOString(), id })
PushUpload(queue, uploadData, t) ==
  Append(queue, [queuedAt |-> t, id |-> UploadId(t)] @@ uploadData)

\* queue.filter((u) => u.id !== uploadId)
RemoveUpload(queue, uploadId) ==
  Filter(queue, LAMBDA u : u.id # uploadId)

\* localforage.getItem('pending_uploads') resolves: the call computes the
\* array it will store and awaits setItem.
QueueGetItem ==
  \E op \in BagToSet(queueOps) :
    /\ op.pc = "getItem"
    /\ queueOps' = (queueOps (-) One(op)) (+) One(
         [op EXCEPT !.pc = "setItem",
                    !.queue = IF op.kind = "enqueue"
                              THEN PushUpload(pending_uploads, op.uploadData, now)
                              ELSE RemoveUpload(pending_uploads, op.uploadId)])
    /\ UNCHANGED <<pending_uploads, nEnqueued>>
    /\ UNCHANGED <<appVars, envVars, saveVars, reviewVars, shellVars>>

\* localforage.setItem('pending_uploads', ...) resolves: the array is
\* stored; queuePendingUpload returns true and handleQueueUpload sets queued.
QueueSetItem ==
  \E op \in BagToSet(queueOps) :
    /\ op.pc = "setItem"
    /\ pending_uploads' = op.queue
    /\ queueOps' = queueOps (-) One(op)
    /\ queued' = IF op.kind = "enqueue" /\ op.mounted THEN TRUE ELSE queued
    /\ UNCHANGED nEnqueued
    /\ UNCHANGED <<uploading, uploaded, uploadError, uploadProgress, exported,
                   attempts, remoteLog, downloads>>
    /\ UNCHANGED <<appVars, envVars, saveVars, shellVars>>

\* getItem or setItem rejects: queuePendingUpload returns false, the other
\* operations ignore the error.
QueueFails ==
  \E op \in BagToSet(queueOps) :
    /\ queueOps' = queueOps (-) One(op)
    /\ UNCHANGED <<pending_uploads, nEnqueued>>
    /\ UNCHANGED <<appVars, envVars, saveVars, reviewVars, shellVars>>

\* the wall clock advances
Tick ==
  /\ now < MaxClock
  /\ now' = now + 1
  /\ UNCHANGED <<cameraFile, signedIn, hasApiToken, photoReads>>
  /\ UNCHANGED <<appVars, saveVars, queueVars, reviewVars, shellVars>>

\* -------------------------------------------------- autosave (App.jsx, storage.js)

\* storage.js line 24: all[surveyId] = { ...data, lastSaved }
PutProgress(all, id, data) ==
  [k \in (DOMAIN all) \cup {id} |-> IF k = id THEN data ELSE all[k]]

\* The 2000 ms timeout of the auto-save effect fires: its callback calls
\* saveSurveyProgress(surveyId, { items: surveyItems, config }) with the
\* values of the render that set it, and runs up to the first await.
SaveCall(timer) ==
  [pc |-> "getItem", surveyId |-> timer.surveyId,
   data |-> [items |-> timer.items, config |-> timer.config, rev |-> timer.rev],
   all |-> <<>>, isOnline |-> timer.isOnline]

TimerFire ==
  /\ BagCardinality(saveOps) < MaxInflight
  /\ \E t \in 1..Len(timers) :
       /\ timers' = RemoveAt(timers, t)
       /\ saveOps' = saveOps (+) One(SaveCall(timers[t]))
  /\ UNCHANGED <<screen, isLinkFlow, config, surveyItems, surveyId, isOnline,
                 saveStatus, edits>>
  /\ UNCHANGED <<survey_progress, lastSave>>
  /\ UNCHANGED <<envVars, queueVars, reviewVars, shellVars>>

\* App.jsx line 260, after saveSurveyProgress returned (its result unused):
\* setSaveStatus(isOnline ? 'saved' : 'offline') with the closure's isOnline.
AfterSave(op) == IF op.isOnline THEN "saved" ELSE "offline"

\* saveSurveyProgress returns to the timer callback with result ok.
SaveReturns(op, ok) ==
  /\ saveOps' = saveOps (-) One(op)
  /\ lastSave' = [ok |-> ok]
  /\ saveStatus' = AfterSave(op)
  /\ UNCHANGED <<screen, isLinkFlow, config, surveyItems, surveyId, isOnline,
                 timers, edits>>
  /\ UNCHANGED <<envVars, queueVars, reviewVars, shellVars>>

\* localforage.getItem('survey_progress') resolves: the call goes on to
\* localforage.setItem with the object it read and its own entry replaced.
SaveGetItem ==
  \E op \in BagToSet(saveOps) :
    /\ op.pc = "getItem"
    /\ saveOps' = (saveOps (-) One(op)) (+)
                    One([op EXCEPT !.pc = "setItem",
                                   !.all = PutProgress(survey_progress, op.surveyId, op.data)])
    /\ UNCHANGED <<appVars, envVars, queueVars, reviewVars>>
    /\ UNCHANGED <<survey_progress, lastSave, shellVars>>

\* localforage.setItem('survey_progress', all) resolves: the object is stored.
SaveSetItem ==
  \E op \in BagToSet(saveOps) :
    /\ op.pc = "setItem"
    /\ survey_progress' = op.all
    /\ SaveReturns(op, TRUE)

\* getItem or setItem rejects (storage unavailable, quota exceeded): the
\* catch block returns false.
SaveFails ==
  \E op \in BagToSet(saveOps) :
    /\ UNCHANGED survey_progress
    /\ SaveReturns(op, FALSE)

\* the autosave of a classic-flow session on the small dataset
InitSave == Init /\ ~isLinkFlow /\ cameraFile = SmallDataset

NextSave ==
  \/ handleSetupComplete
  \/ handleMarkComplete
  \/ handleOnline
  \/ handleOffline
  \/ TimerFire
  \/ SaveGetItem
  \/ SaveSetItem
  \/ SaveFails

SpecSave == InitSave /\ [][NextSave]_vars

\* ------------------------------------------------------------ session store

NextStore ==
  \/ handleGoogleSignIn
  \/ handleSetupComplete
  \/ loadProjectFromAPI
  \/ handleSurveyChange
  \/ handleMarkComplete
  \/ handleRepositionConfirm

SpecStore == Init /\ [][NextStore]_vars

\* partial camera records an updateCamera call may carry
CameraUpdates ==
  { [newLatitude |-> 1, newLongitude |-> 0, repositioned |-> TRUE,
     repositionReason |-> "blocked"],
    [newLatitude |-> 0, newLongitude |-> 1, repositioned |-> TRUE,
     repositionReason |-> NullS],
    [repositionReason |-> "moved"],
    [repositioned |-> FALSE, newLatitude |-> Null, newLongitude |-> Null] }

\* item fields other than the camera list
ItemFrame(item) ==
  [f \in (DOMAIN item) \ {"cameras"} |-> item[f]]

\* C10: in every session state, updateCamera on an existing room and camera
\* changes only the named fields of that camera; the room's other cameras,
\* its survey record and its other fields, and every other room stay equal.
C10_UpdateCameraIsolation ==
  \A i \in 1..Len(surveyItems) :
    \A c \in 1..Len(surveyItems[i].cameras) :
      \A upd \in CameraUpdates :
        LET item == surveyItems[i]
            cam == item.cameras[c]
            next == handleUpdateCamera(surveyItems, item.id, cam.id, upd)
        IN  /\ Len(next) = Len(surveyItems)
            /\ \A j \in 1..Len(surveyItems) : j # i => next[j] = surveyItems[j]
            /\ ItemFrame(next[i]) = ItemFrame(item)
            /\ Len(next[i].cameras) = Len(item.cameras)
            /\ \A d \in 1..Len(item.cameras) :
                 d # c => next[i].cameras[d] = item.cameras[d]
            /\ DOMAIN next[i].cameras[c] = DOMAIN cam
            /\ \A f \in DOMAIN cam :
                 next[i].cameras[c][f] = IF f \in DOMAIN upd THEN upd[f] ELSE cam[f]

\* A room whose first camera was repositioned while its second camera is as
\* built, in a session where another room's survey record was edited.
C10_Witness ==
  \E i \in 1..Len(surveyItems) :
    /\ Len(surveyItems[i].cameras) >= 2
    /\ surveyItems[i].cameras[1].repositioned
    /\ surveyItems[i].cameras[1].newLatitude = 1
    /\ surveyItems[i].cameras[2].repositioned = FALSE
    /\ surveyItems[i].cameras[2].newLatitude = Null
    /\ \E j \in 1..Len(surveyItems) : j # i /\ surveyItems[j].survey.completed

\* partial room records an updateRoom call may carry
RoomUpdates ==
  { [survey |-> [completed |-> TRUE, completedAt |-> 0] @@ EmptySurvey],
    [survey |-> [notes |-> "x"] @@ EmptySurvey],
    [roomName |-> "Renamed"] }

\* ids of the imported cameras
CameraIds(json) == {json.cameras[i].id : i \in 1..Len(json.cameras)}

\* room ids that match no survey item
UnknownRoomIds == {"", "nope", "A__Nowhere"} \ {surveyItems[i].id : i \in 1..Len(surveyItems)}

\* camera ids that match no camera of the room: ids of no camera at all, and
\* ids of cameras of other rooms
UnknownCameraIds(item) ==
  ({"", "zz"} \cup CameraIds(config.cameraJson))
    \ {item.cameras[c].id : c \in 1..Len(item.cameras)}

\* C11: in every session state, updateRoom with a room id that matches no
\* item, updateCamera with such a room id, and updateCamera with a camera id
\* that matches no camera of a known room all return the session unchanged.
C11_UnknownIdsAreNoOps ==
  /\ \A id \in UnknownRoomIds :
       /\ \A upd \in RoomUpdates :
            handleUpdateSurveyItem(surveyItems, id, upd) = surveyItems
       /\ \A cid \in {"", "zz"} \cup CameraIds(config.cameraJson), upd \in CameraUpdates :
            handleUpdateCamera(surveyItems, id, cid, upd) = surveyItems
  /\ \A i \in 1..Len(surveyItems) :
       \A cid \in UnknownCameraIds(surveyItems[i]), upd \in CameraUpdates :
         handleUpdateCamera(surveyItems, surveyItems[i].id, cid, upd) = surveyItems

\* A session of three rooms in which a camera was repositioned and a form
\* field was filled in: the state the unknown ids are tried on.
C11_Witness ==
  /\ Len(surveyItems) = 3
  /\ \E i \in 1..Len(surveyItems) : surveyItems[i].survey.ceilingHeight = "3"
  /\ \E i \in 1..Len(surveyItems) :
       \E c \in 1..Len(surveyItems[i].cameras) : surveyItems[i].cameras[c].repositioned

\* the cameras of all rooms of the session
SessionCameras == Flatten(Map(surveyItems, LAMBDA i : i.cameras))

\* the session's camera of the given id
SessionCamera(id) ==
  LET k == CHOOSE k \in 1..Len(SessionCameras) : SessionCameras[k].id = id
  IN  SessionCameras[k]

\* C14: the updated placements document lists the cameras of the imported
\* dataset in the same number and order; a camera's latitude and longitude
\* are the session's newLatitude and newLongitude if and only if the camera
\* is marked repositioned, and every other field and every camera not
\* repositioned is passed through unchanged.
C14_UpdatedPlacements ==
  LET orig == config.cameraJson
      out == buildUpdatedPlacements(orig, surveyItems)
  IN  /\ DOMAIN out = DOMAIN orig
      /\ Len(out.cameras) = Len(orig.cameras)
      /\ \A k \in 1..Len(orig.cameras) :
           LET o == orig.cameras[k]
               c == SessionCamera(o.id)
           IN  /\ DOMAIN out.cameras[k] = DOMAIN o
               /\ \A f \in DOMAIN o \ {"latitude", "longitude"} :
                    out.cameras[k][f] = o[f]
               /\ out.cameras[k].latitude =
                    IF c.repositioned THEN c.newLatitude ELSE o.latitude
               /\ out.cameras[k].longitude =
                    IF c.repositioned THEN c.newLongitude ELSE o.longitude

\* one camera was moved away from its imported position, another was not
\* moved
C14_Witness ==
  /\ \E k \in 1..Len(SessionCameras) :
       /\ SessionCameras[k].repositioned
       /\ <<SessionCameras[k].newLatitude, SessionCameras[k].newLongitude>>
            # <<SessionCameras[k].latitude, SessionCameras[k].longitude>>
  /\ \E k \in 1..Len(SessionCameras) : ~SessionCameras[k].repositioned
  /\ buildUpdatedPlacements(config.cameraJson, surveyItems) # config.cameraJson

\* C16: in every reachable session state every camera marked repositioned
\* has a newLatitude and a newLongitude that are not null.
C16_RepositionedHasNewPosition ==
  \A k \in 1..Len(SessionCameras) :
    SessionCameras[k].repositioned =>
      /\ SessionCameras[k].newLatitude # Null
      /\ SessionCameras[k].newLongitude # Null

\* after two session mutations exactly one camera is marked repositioned,
\* with no reason given
C16_Witness ==
  /\ edits = 2
  /\ \E k \in 1..Len(SessionCameras) :
       /\ SessionCameras[k].repositioned
       /\ SessionCameras[k].repositionReason = NullS
       /\ \A j \in 1..Len(SessionCameras) : j # k => ~SessionCameras[j].repositioned

\* A classic-flow session whose rooms are edited and whose cameras are
\* repositioned, then downloaded, queued and submitted.
InitFrame == Init /\ ~isLinkFlow /\ cameraFile = SmallDataset

NextFrame ==
  \/ handleGoogleSignIn
  \/ handleSetupComplete
  \/ handleSurveyChange
  \/ handleRepositionConfirm
  \/ handleGoToReview
  \/ handleOnline
  \/ handleOffline
  \/ handleExportJSON
  \/ handleQueueUpload
  \/ QueueGetItem
  \/ QueueSetItem
  \/ handleUpload
  \/ UploadJsonOk
  \/ UploadPlacementsOk

SpecFrame == InitFrame /\ [][NextFrame]_vars

\* the camera of the imported file with the given id
ImportedCamera(id) ==
  LET k == CHOOSE k \in 1..Len(cameraFile.cameras) : cameraFile.cameras[k].id = id
  IN  cameraFile.cameras[k]

\* the session camera c is the imported camera plus the four reposition fields
AsImported(c) ==
  /\ \E k \in 1..Len(cameraFile.cameras) : cameraFile.cameras[k].id = c.id
  /\ DOMAIN c = DOMAIN ImportedCamera(c.id)
       \cup {"newLatitude", "newLongitude", "repositioned", "repositionReason"}
  /\ \A f \in DOMAIN ImportedCamera(c.id) : c[f] = ImportedCamera(c.id)[f]

\* C15: through every sequence of room updates, repositions, exports,
\* placement builds, uploads and enqueues, config.cameraJson equals the
\* imported file and every session camera keeps its imported fields, latitude
\* and longitude included: a reposition writes newLatitude, newLongitude,
\* repositioned and repositionReason only.
C15_ImportedDataUntouched ==
  config.loaded =>
    /\ config.cameraJson = cameraFile
    /\ Len(SessionCameras) = Len(cameraFile.cameras)
    /\ \A k \in 1..Len(SessionCameras) : AsImported(SessionCameras[k])
    /\ \A a \in BagToSet(attempts) : a.config.cameraJson = cameraFile
    /\ \A i \in 1..Len(pending_uploads) :
         pending_uploads[i].config.cameraJson = cameraFile

\* a field was edited and a camera moved away from its imported position;
\* the document was downloaded, queued while offline, and the submission
\* uploaded its placements file
C15_Witness ==
  /\ \E i \in 1..Len(surveyItems) : surveyItems[i].survey.ceilingHeight = "3"
  /\ \E k \in 1..Len(SessionCameras) :
       /\ SessionCameras[k].repositioned
       /\ SessionCameras[k].newLatitude # SessionCameras[k].latitude
  /\ downloads # <<>>
  /\ pending_uploads # <<>>
  /\ \E e \in 1..Len(remoteLog) :
       remoteLog[e].op = "placements" /\ remoteLog[e].ev = "ok"

\* --------------------------------------------------------- room claims

\* The rooms of a session are opened, edited, photographed and completed,
\* and the technician moves on with the Next Room button.
InitShell == Init /\ isOnline

\* SurveyShell lines 93-105: SurveyView is rendered for the selected room,
\* and its onUpdate and onUpdateCamera reach that room's item only.
OnShownRoom ==
  /\ RoomShown
  /\ \A i \in 1..Len(surveyItems) :
       surveyItems[i].id # selectedRoomId => surveyItems'[i] = surveyItems[i]

ShownSurveyChange == handleSurveyChange /\ OnShownRoom
ShownMarkComplete == handleMarkComplete /\ OnShownRoom
ShownRepositionConfirm == handleRepositionConfirm /\ OnShownRoom
ShownRemovePhoto == handleRemovePhoto /\ OnShownRoom
ShownFileChange ==
  handleFileChange /\ RoomShown /\ Last(photoReads').itemId = selectedRoomId

NextShell ==
  \/ handleSetupComplete
  \/ loadProjectFromAPI
  \/ setSelectedFloor
  \/ handleSelectRoom
  \/ handleBackToList
  \/ handleNextRoom
  \/ ReviewButton
  \/ ShownSurveyChange
  \/ ShownMarkComplete
  \/ ShownRepositionConfirm
  \/ ShownFileChange
  \/ handleAddPhotos
  \/ ShownRemovePhoto

SpecShell == InitShell /\ [][NextShell]_vars

\* the step is handleMarkComplete on room i
MarkCompleteOn(i) ==
  LET item == surveyItems[i]
  IN  surveyItems' = handleUpdateSurveyItem(surveyItems, item.id,
        [survey |-> [completed |-> ~item.survey.completed,
                     completedAt |-> IF ~item.survey.completed THEN now ELSE Null]
                    @@ item.survey])

\* C17: a room's completed flag changes only in a step that is the
\* mark-complete action on that room: no field edit, photo add or remove,
\* reposition or action on another room changes it.
C17_CompletedOnlyByMarkComplete ==
  [][ \A i \in 1..Len(surveyItems) :
        (/\ i <= Len(surveyItems')
         /\ surveyItems'[i].survey.completed # surveyItems[i].survey.completed)
          => MarkCompleteOn(i) ]_vars

\* position of the room with the given id in the room list
IndexOf(id) == CHOOSE k \in 1..Len(surveyItems) : surveyItems[k].id = id

\* the position d places after position p on the ring of n rooms
RingAt(p, d, n) == ((p + d - 1) % n) + 1

\* the step is the Next Room button of the room shown
NextRoomStep ==
  /\ RoomShown
  /\ nextFrom' = selectedRoomId
  /\ \/ screen' = "review"
     \/ ~showRoomList' /\ selectedRoomId' # selectedRoomId

\* C18: from room r the Next Room button selects the first room with
\* completed = false met when scanning the room list forward from the
\* position after r and on from the start of the list; from the last room
\* with one incomplete room before it, that room.
C18_NextRoomRingScan ==
  [][ NextRoomStep =>
        LET n == Len(surveyItems)
            p == IndexOf(selectedRoomId)
            open == {d \in 1..(n - 1) :
                      ~surveyItems[RingAt(p, d, n)].survey.completed}
        IN  /\ screen' = "survey" =>
                 /\ open # {}
                 /\ \E d \in open :
                      /\ \A e \in open : d <= e
                      /\ selectedRoomId' = surveyItems[RingAt(p, d, n)].id
                      /\ selectedFloor' = surveyItems[RingAt(p, d, n)].floorId
            /\ open # {} => screen' = "survey" ]_vars

\* the button was used in the last of three rooms and led back to the one
\* incomplete room before it, past a completed first room
C18_Witness ==
  /\ Len(surveyItems) = 3
  /\ nextFrom = surveyItems[3].id
  /\ RoomShown
  /\ selectedRoomId = surveyItems[2].id
  /\ surveyItems[1].survey.completed
  /\ ~surveyItems[2].survey.completed

\* C19: the Next Room button leads to the review screen only when every
\* room, the room it was used in included, is complete; while a room is
\* incomplete it selects an incomplete room.
C19_NextRoomExcludesNoRoom ==
  [][ NextRoomStep =>
        LET open == {k \in 1..Len(surveyItems) : ~surveyItems[k].survey.completed}
        IN  /\ screen' = "review" => open = {}
            /\ open # {} =>
                 /\ screen' = "survey"
                 /\ \E k \in open : selectedRoomId' = surveyItems[k].id ]_vars

MaxParseCameras == 3

ParseFloorIds == {"", "1", "2", "B"}

ParseRooms == {"", "1", "R"}

ParseDataset(f, r) ==
  [cameras |-> [i \in 1..MaxParseCameras |->
                  Cam("c" \o ToString(i), "Cam", r[i], f[i], "", 0, 0)]]

ParseDatasets ==
  { ParseDataset(f, r) : f \in [1..MaxParseCameras -> ParseFloorIds],
                         r \in [1..MaxParseCameras -> ParseRooms] }

InitParse == InitApp /\ isOnline /\ cameraFile \in ParseDatasets

NextParse ==
  \/ handleGoogleSignIn
  \/ handleSetupComplete
  \/ loadProjectFromAPI

SpecParse == InitParse /\ [][NextParse]_vars

\* the parse of the dataset the session was started from
Parsed == parseCameraData(config.cameraJson)

\* room keys of the cameras of one floor, in order of first appearance
FirstSeenRooms(cameras, floorId) ==
  FirstSeen(Map(Filter(cameras, LAMBDA c : FloorIdOf(c) = floorId), RoomKeyOf))

\* C21: once a session is started, the floors of the parsed dataset are in
\* the order in which their floor ids first appear in the cameras array,
\* the rooms of each floor are in the order in which their room keys first
\* appear, and the flat list of survey items is in that same order.
C21_FirstSeenOrder ==
  config.loaded =>
    LET cameras == config.cameraJson.cameras
        floorIds == FirstSeen(Map(cameras, FloorIdOf))
    IN  /\ Map(Parsed.floors, LAMBDA f : f.floorId) = floorIds
        /\ \A i \in 1..Len(Parsed.floors) :
             Map(Parsed.floors[i].rooms, LAMBDA room : room.name)
               = FirstSeenRooms(cameras, Parsed.floors[i].floorId)
        /\ Map(surveyItems, LAMBDA it : <<it.floorId, it.roomName>>)
             = Flatten(Map(floorIds, LAMBDA fl :
                 Map(FirstSeenRooms(cameras, fl), LAMBDA rm : <<fl, rm>>)))

\* the cameras of every room of every floor of a parse, in list order
PlacedCameras(parsed) ==
  Flatten(Map(parsed.floors, LAMBDA f :
    Flatten(Map(f.rooms, LAMBDA room : room.cameras))))

\* the rooms of every floor of a parse, in list order
ParsedRooms(parsed) == Flatten(Map(parsed.floors, LAMBDA f : f.rooms))

\* C22: once a session is started, every camera of the dataset is in exactly
\* one room of exactly one floor of the parse, totalCameras is the sum of the
\* rooms' camera counts, totalRooms is the number of survey items, and the
\* items' index fields are 0..n-1 in list order.
C22_ParsePartition ==
  config.loaded =>
    LET cameras == config.cameraJson.cameras
    IN  /\ \A i \in 1..Len(cameras) :
             /\ Count(ParsedRooms(Parsed), LAMBDA room :
                  \E k \in 1..Len(room.cameras) : room.cameras[k] = cameras[i]) = 1
             /\ Count(PlacedCameras(Parsed), LAMBDA c : c = cameras[i]) = 1
        /\ Len(PlacedCameras(Parsed)) = Len(cameras)
        /\ Parsed.totalCameras
             = SeqSum(Map(ParsedRooms(Parsed), LAMBDA room : Len(room.cameras)))
        /\ Parsed.totalRooms = Len(surveyItems)
        /\ \A i \in 1..Len(surveyItems) : surveyItems[i].index = i - 1

\* a started session of two floors, one of them with a room of two cameras
C22_Witness ==
  /\ config.loaded
  /\ Len(Parsed.floors) = 2
  /\ Len(surveyItems) = 2
  /\ \E i \in 1..2 : Len(surveyItems[i].cameras) = 2

\* -------------------------------------------------------- photo add claims

\* the step applies the photos of the pending read r to its room
PhotoAddStep(r) ==
  /\ r \in 1..Len(photoReads)
  /\ photoReads' = RemoveAt(photoReads, r)
  /\ edits' = edits + 1

\* C26: when the photos of a finished read are applied to their room, the
\* room's survey record keeps every field as it was just before (field
\* edits and the completion toggle made since the files were picked
\* included) and keeps the photos it had, the new photos coming after them.
C26_PhotoAddKeepsEdits ==
  [][ \A r \in 1..Len(photoReads) :
        PhotoAddStep(r) =>
          \A i \in 1..Len(surveyItems) :
            surveyItems[i].id = photoReads[r].itemId =>
              LET before == surveyItems[i].survey
                  after == surveyItems'[i].survey
              IN  /\ \A f \in DOMAIN before \ {"photos"} : after[f] = before[f]
                  /\ Len(after.photos) = Len(before.photos) + photoReads[r].n
                  /\ SubSeq(after.photos, 1, Len(before.photos)) = before.photos
    ]_vars

\* ------------------------------------------------------- submission claims

\* a session on the small dataset, online throughout, from setup to the
\* review screen's uploads
InitUpload == Init /\ cameraFile = SmallDataset /\ isOnline

NextUpload ==
  \/ handleGoogleSignIn
  \/ handleSetupComplete
  \/ loadProjectFromAPI
  \/ handleRepositionConfirm
  \/ handleFileChange
  \/ handleAddPhotos
  \/ handleGoToReview
  \/ handleBackToSurvey
  \/ handleUpload
  \/ UploadJsonOk
  \/ UploadPlacementsOk
  \/ UploadPhotoOk
  \/ UploadStepFails

SpecUpload == InitUpload /\ [][NextUpload]_vars

\* the review screen of an unedited session while connectivity comes and goes
InitOffline == Init /\ cameraFile = SmallDataset

NextOffline ==
  \/ handleGoogleSignIn
  \/ handleSetupComplete
  \/ loadProjectFromAPI
  \/ handleGoToReview
  \/ handleBackToSurvey
  \/ handleOnline
  \/ handleOffline
  \/ handleUpload
  \/ UploadJsonOk
  \/ UploadStepFails
  \/ handleQueueUpload
  \/ QueueGetItem
  \/ QueueSetItem
  \/ QueueFails

SpecOffline == InitOffline /\ [][NextOffline]_vars

\* the histories of the attempts in flight and of the attempt that ended last
Logs == {a.log : a \in BagToSet(attempts)} \cup {remoteLog}

StepRank == ("json" :> 1) @@ ("placements" :> 2) @@ ("photo" :> 3)

\* The remote operations of one attempt in order: the survey JSON first and
\* once, then at most one placements file, then photos; each operation is
\* issued right after the previous one was answered ok, and nothing is
\* issued after a failure.
InOrder(log) ==
  /\ log # <<>> => log[1].ev = "issue" /\ log[1].op = "json"
  /\ \A p \in 2..Len(log) :
       /\ log[p].ev = "issue" =>
            /\ log[p - 1].ev = "ok"
            /\ StepRank[log[p - 1].op] <= StepRank[log[p].op]
            /\ log[p].op # "photo" => log[p - 1].op # log[p].op
            /\ \E q \in 1..(p - 1) : log[q].ev = "ok" /\ log[q].op = "json"
       /\ log[p].ev # "issue" =>
            /\ log[p - 1].ev = "issue"
            /\ log[p - 1].op = log[p].op /\ log[p - 1].name = log[p].name

\* C1: within one submission attempt the remote operations are issued in the
\* order survey JSON, placements, photos, each only after the previous one
\* completed successfully; no placements file and no photo is sent before
\* the survey JSON of the same attempt was stored.
C1_UploadOrder == \A log \in Logs : InOrder(log)

\* An attempt that stored the survey JSON, then the placements, then a
\* photo, and ended successfully.
C1_Witness ==
  /\ Len(remoteLog) = 6
  /\ remoteLog[1].op = "json" /\ remoteLog[2].ev = "ok"
  /\ remoteLog[3].op = "placements" /\ remoteLog[4].ev = "ok"
  /\ remoteLog[5].op = "photo" /\ remoteLog[6].ev = "ok"
  /\ uploaded

\* an attempt ended in this step because one of its remote steps failed
AttemptFailed ==
  /\ BagCardinality(attempts') < BagCardinality(attempts)
  /\ remoteLog' # <<>>
  /\ Last(remoteLog').ev = "fail"

\* C2: when a remote step of an attempt fails, no later step of the attempt
\* is issued, the review screen is in the failed state with the message of
\* the failing step, and the attempt is not reported as succeeded.
C2_FailFast ==
  [][ AttemptFailed =>
        /\ \A a \in BagToSet(attempts') : a \in BagToSet(attempts)
        /\ uploadError' = Last(remoteLog').msg
        /\ ~uploading'
        /\ uploaded' = uploaded
    ]_vars

\* C3 as the specification states it: an attempt that fails while the
\* application is offline enqueues the submission and the status becomes
\* queued, not failed.
C3_OfflineFailureQueues ==
  [][ (AttemptFailed /\ ~isOnline) =>
        /\ queued'
        /\ uploadError' = ""
        /\ \/ queueOps' # queueOps
           \/ Len(pending_uploads') > Len(pending_uploads)
    ]_vars

\* C3, amended: an attempt that fails, online or offline, enqueues nothing
\* and does not set the status to queued.  A submission is enqueued only by
\* the queue button, on the review screen of a classic-flow session with a
\* Drive project while the application is offline and not yet queued, and
\* the status becomes queued only when that enqueue's write was stored.
C3_QueuedOnlyByQueueAction ==
  [][ /\ AttemptFailed =>
           /\ queued' = queued
           /\ queueOps' = queueOps
           /\ pending_uploads' = pending_uploads
      /\ BagCardinality(queueOps') > BagCardinality(queueOps) =>
           /\ screen = "review"
           /\ ~isOnline /\ ~config.isLinkFlow /\ config.hasGdrive /\ ~queued
           /\ \E op \in BagToSet(queueOps') :
                op.kind = "enqueue" /\ queueOps' = queueOps (+) One(op)
      /\ (queued' /\ ~queued) =>
           \E op \in BagToSet(queueOps) :
             /\ op.kind = "enqueue" /\ op.pc = "setItem"
             /\ queueOps' = queueOps (-) One(op)
             /\ pending_uploads' = op.queue
             /\ Last(pending_uploads').surveyItems = op.uploadData.surveyItems
    ]_vars

\* An attempt failed while the application was offline: the screen shows
\* the failure, nothing was enqueued and the status is not queued.
C3_Witness ==
  /\ remoteLog # <<>>
  /\ Last(remoteLog).ev = "fail" /\ ~Last(remoteLog).online
  /\ ~isOnline
  /\ uploadError = Last(remoteLog).msg
  /\ ~queued
  /\ pending_uploads = <<>>
  /\ queueOps = EmptyBag

\* --------------------------------------------------- review screen claims

\* the upload status flags of the review screen that are raised
StatusFlags ==
  {f \in {"uploading", "uploaded", "failed", "queued"} :
     \/ f = "uploading" /\ uploading
     \/ f = "uploaded" /\ uploaded
     \/ f = "failed" /\ uploadError # ""
     \/ f = "queued" /\ queued}

\* C23: on the review screen at most one of uploading, uploaded, queued and a
\* non-empty uploadError is true.
C23_OneUploadStatus ==
  screen = "review" => Cardinality(StatusFlags) <= 1

\* the change records of the payload the review screen would build now
Changes == buildCameraChanges(config.cameraJson, surveyItems)

\* the change records of the camera of the given id
ChangesOf(changes, id) == Filter(changes, LAMBDA rec : rec.id = id)

\* the step is the confirmed reposition of camera c of room i to position
RepositionStep(i, c, position, reason) ==
  /\ edits' = edits + 1
  /\ surveyItems' = handleUpdateCamera(surveyItems, surveyItems[i].id,
                      surveyItems[i].cameras[c].id,
                      RepositionUpdate(position.latitude, position.longitude, reason))

\* C24: the change list holds exactly one record per camera marked
\* repositioned and none for the others, so its length is the payload's
\* summary.repositionedCameras and cameraChanges.repositioned; a record's
\* original coordinate is the camera's coordinate in the imported dataset;
\* and after every confirmed reposition the record's new coordinate is the
\* position just confirmed, the records of the other cameras staying as they
\* were.
C24_OneChangePerRepositionedCamera ==
  /\ [](LET payload == buildPayload(surveyItems, config, now)
        IN  /\ Len(Changes) = payload.summary.repositionedCameras
            /\ Len(Changes) = payload.cameraChanges.repositioned
            /\ payload.cameraChanges.changes = Changes
            /\ \A k \in 1..Len(SessionCameras) :
                 LET cam == SessionCameras[k]
                     recs == ChangesOf(Changes, cam.id)
                 IN  /\ Len(recs) = IF cam.repositioned THEN 1 ELSE 0
                     /\ \A r \in 1..Len(recs) :
                          \E o \in 1..Len(config.cameraJson.cameras) :
                            /\ config.cameraJson.cameras[o].id = cam.id
                            /\ recs[r].original
                                 = <<config.cameraJson.cameras[o].latitude,
                                     config.cameraJson.cameras[o].longitude>>)
  /\ [][ \A i \in 1..Len(surveyItems), position \in Positions, reason \in Reasons :
           \A c \in 1..Len(surveyItems[i].cameras) :
             RepositionStep(i, c, position, reason) =>
               LET id == surveyItems[i].cameras[c].id
                   after == buildCameraChanges(config'.cameraJson, surveyItems')
               IN  /\ Len(ChangesOf(after, id)) = 1
                   /\ ChangesOf(after, id)[1].new
                        = <<position.latitude, position.longitude>>
                   /\ \A k \in 1..Len(SessionCameras) :
                        SessionCameras[k].id # id =>
                          ChangesOf(after, SessionCameras[k].id)
                            = ChangesOf(Changes, SessionCameras[k].id)
       ]_vars

\* one camera was repositioned twice, to two positions in turn, and nothing
\* else was edited; the change list holds its one record
C24_Witness ==
  /\ edits = 2
  /\ Len(Changes) = 1
  /\ \A i \in 1..Len(surveyItems) :
       /\ surveyItems[i].survey.ceilingHeight = ""
       /\ ~surveyItems[i].survey.completed
  /\ Changes[1].new # Changes[1].original

\* the names of the photo events of the given kind in a history, in order
PhotoEvents(log, ev) ==
  Map(Filter(log, LAMBDA e : e.op = "photo" /\ e.ev = ev), LAMBDA e : e.name)

\* attempt a ends successfully in this step
AttemptSucceeds(a) ==
  /\ attempts' = attempts (-) One(a)
  /\ Len(remoteLog') = Len(a.log) + 1
  /\ SubSeq(remoteLog', 1, Len(a.log)) = a.log
  /\ Last(remoteLog').ev = "ok"

\* C25: while an attempt runs, the photos it has sent are the first ones in
\* room order and then photo-index order, each sent once; a photo is sent
\* only after the one before it was answered, so at most one photo upload
\* of the attempt is pending; the counter of the progress message is the
\* number of the photo being sent, 1..total in turn; and the attempt that
\* ends successfully has sent every photo of every room.
C25_PhotosOnceInOrder ==
  /\ [](\A a \in BagToSet(attempts) :
          LET all == PhotoQueue(a.dateStr, a.items)
              sent == PhotoEvents(a.log, "issue")
              answered == PhotoEvents(a.log, "ok")
          IN  /\ Len(sent) <= Len(all)
              /\ sent = SubSeq(all, 1, Len(sent))
              /\ a.pc = "photo" =>
                   /\ a.k = Len(sent) /\ a.k \in 1..totalPhotos(a.items)
                   /\ answered = SubSeq(all, 1, a.k - 1)
                   /\ a.mounted =>
                        uploadProgress = "Uploading photo " \o ToString(a.k) \o " of "
                                           \o ToString(Len(all)) \o "..."
              /\ a.pc # "photo" => sent = <<>>)
  /\ [][ \A a \in BagToSet(attempts) :
           AttemptSucceeds(a) =>
             /\ PhotoEvents(remoteLog', "issue") = PhotoQueue(a.dateStr, a.items)
             /\ PhotoEvents(remoteLog', "ok") = PhotoQueue(a.dateStr, a.items)
             /\ Len(PhotoQueue(a.dateStr, a.items)) = totalPhotos(a.items)
       ]_vars

\* a successful attempt that uploaded two photos
C25_Witness ==
  /\ uploaded
  /\ Len(PhotoEvents(remoteLog, "ok")) = 2
  /\ Last(remoteLog).ev = "ok"

\* C27: at most one submission attempt of the session is in flight.
C27_OneAttemptInFlight == BagCardinality(attempts) <= 1

\* --------------------------------------------------- photo filename claims

\* Sessions, of either flow, whose rooms get photos and are then submitted.
InitNames ==
  InitApp /\ isOnline /\ cameraFile \in {SmallDataset, TwoFloorDataset}

NextNames ==
  \/ handleGoogleSignIn
  \/ handleSetupComplete
  \/ loadProjectFromAPI
  \/ handleFileChange
  \/ handleAddPhotos
  \/ handleGoToReview
  \/ handleUpload
  \/ UploadJsonOk
  \/ UploadPhotoOk

SpecNames == InitNames /\ [][NextNames]_vars

\* the photo filenames the survey JSON of a submission refers to, in room
\* order and photo order
ReferencedNames(payload) ==
  Flatten(Map(payload.rooms, LAMBDA room :
    Map(room.survey.photos, LAMBDA p : p.filename)))

\* no entry of the sequence occurs twice
Distinct(s) == \A i, j \in 1..Len(s) : i # j => s[i] # s[j]

\* C30: in every submission the photos of all rooms are uploaded under
\* pairwise distinct filenames, and the filenames the survey JSON refers to
\* are those names, one per photo.
C30_DistinctPhotoFilenames ==
  \A a \in BagToSet(attempts) :
    /\ Distinct(PhotoQueue(a.dateStr, a.items))
    /\ ReferencedNames(a.payload) = PhotoQueue(a.dateStr, a.items)

\* ------------------------------------------------------------ queue claims

\* The queue of a classic-flow session and the operations storage.js
\* exports on it.  The online event is fair, and a storage call that can
\* resolve does so eventually.
InitQueue == Init /\ ~isLinkFlow /\ cameraFile = SmallDataset

NextQueue ==
  \/ handleGoogleSignIn
  \/ handleSetupComplete
  \/ handleGoToReview
  \/ handleBackToSurvey
  \/ handleOnline
  \/ handleOffline
  \/ Tick
  \/ handleQueueUpload
  \/ removePendingUpload
  \/ clearPendingUploads
  \/ QueueGetItem
  \/ QueueSetItem
  \/ QueueFails

SpecQueue ==
  /\ InitQueue
  /\ [][NextQueue]_vars
  /\ WF_vars(handleOnline)
  /\ WF_vars(QueueGetItem)
  /\ WF_vars(QueueSetItem)

\* C4: no entry stays in the pending upload queue forever while the
\* application is online: again and again the application is offline or the
\* queue has been drained.
C4_QueueDrainsWhenOnline ==
  []<>(~isOnline \/ pending_uploads = <<>>)

\* some entry of the stored queue is no longer in it after the step
EntryLeft ==
  \E i \in 1..Len(pending_uploads) :
    \A j \in 1..Len(pending_uploads') : pending_uploads'[j] # pending_uploads[i]

\* C5: an entry leaves the pending upload queue only after an upload
\* sequence was replayed and ended successfully.
C5_RemovedOnlyAfterDelivery ==
  [][ EntryLeft => (remoteLog # <<>> /\ Last(remoteLog).ev = "ok") ]_vars

\* C6: on the stored queue, removePendingUpload(id) with an id that is
\* present deletes exactly one entry and leaves the others as they are and
\* in their order.
C6_RemoveDeletesExactlyOne ==
  \A t \in 0..MaxClock :
    LET filtered == RemoveUpload(pending_uploads, UploadId(t))
        hits == {i \in 1..Len(pending_uploads) : pending_uploads[i].id = UploadId(t)}
    IN  hits # {} =>
          /\ Len(filtered) = Len(pending_uploads) - 1
          /\ \E i \in hits : filtered = RemoveAt(pending_uploads, i)

\* --------------------------------------------------------- export claims

\* A classic-flow session with photos, reviewed online or offline: the
\* document is downloaded, queued when offline and submitted when online.
InitExport == Init /\ ~isLinkFlow /\ cameraFile = SmallDataset

NextExport ==
  \/ handleGoogleSignIn
  \/ handleSetupComplete
  \/ handleFileChange
  \/ handleAddPhotos
  \/ handleGoToReview
  \/ Tick
  \/ handleExportJSON
  \/ handleQueueUpload
  \/ QueueGetItem
  \/ QueueSetItem
  \/ handleUpload
  \/ UploadJsonOk
  \/ UploadPhotoOk

SpecExport == InitExport /\ [][NextExport]_vars

\* the export documents in existence: downloaded, on their way into the
\* queue or stored in it, and carried by a submission attempt
Documents ==
  {downloads[i].document : i \in 1..Len(downloads)}
    \cup {op.uploadData.payload :
            op \in {o \in BagToSet(queueOps) : o.kind = "enqueue"}}
    \cup {pending_uploads[i].payload : i \in 1..Len(pending_uploads)}
    \cup {a.payload : a \in BagToSet(attempts)}

\* the data URLs FileReader delivers
DataUrls == {Photo(label, n).dataUrl : label \in PhotoLabels, n \in 1..MaxPhotos}

\* every photo entry of the document is label, timestamp and a filename or
\* a reference that is not a data URL
CarriesNoPhotoData(doc) ==
  \A r \in 1..Len(doc.rooms) :
    \A i \in 1..Len(doc.rooms[r].survey.photos) :
      LET entry == doc.rooms[r].survey.photos[i]
      IN  /\ DOMAIN entry \subseteq {"label", "timestamp", "filename", "url"}
          /\ "url" \in DOMAIN entry => entry.url \notin DataUrls

\* C12: no export document produced for download, for queuing or for
\* remote submission contains a photo's data URL: every photo entry carries
\* only label, timestamp and a filename or remote reference.
C12_NoPhotoDataInDocuments ==
  \A doc \in Documents : CarriesNoPhotoData(doc)

\* C13: two export documents built from the same session state are
\* identical in every field except exportedAt.
C13_ExportDeterministic ==
  \A i, j \in 1..Len(downloads) :
    downloads[i].rev = downloads[j].rev =>
      [downloads[i].document EXCEPT !.exportedAt = 0]
        = [downloads[j].document EXCEPT !.exportedAt = 0]

\* ------------------------------------------------------------ autosave claims

\* at most one timeout is pending, and it holds the current session state
PendingIsLatest ==
  /\ Len(timers) <= 1
  /\ \A t \in 1..Len(timers) :
       timers[t].items = surveyItems /\ timers[t].rev = edits

\* C7: the autosave is debounced.  A session mutation starts no write and
\* leaves exactly one timeout pending, the one set for the new state; when a
\* timeout fires it starts exactly one write, that write carries the session
\* state as it is after the last mutation, and no timeout stays pending: a
\* burst of mutations, each arriving before the previous timeout fired, ends
\* in one write of the last state.
C7_DebouncedAutosave ==
  [][ /\ PendingIsLatest'
      /\ edits' # edits =>
           /\ saveOps' = saveOps
           /\ Len(timers') = 1
      /\ BagCardinality(saveOps') > BagCardinality(saveOps) =>
           /\ \E op \in BagToSet(saveOps') :
                /\ saveOps' = saveOps (+) One(op)
                /\ op.pc = "getItem"
                /\ op.data.items = surveyItems
                /\ op.data.rev = edits
           /\ timers' = <<>>
    ]_vars

\* The one write of a burst of two mutations is in flight: nothing was
\* stored before it, and it carries the state after the second mutation.
C7_Witness ==
  /\ edits = 2
  /\ BagCardinality(saveOps) = 1
  /\ \A op \in BagToSet(saveOps) :
       op.data.rev = 2 /\ op.data.items = surveyItems
  /\ timers = <<>>
  /\ survey_progress = <<>>
  /\ saveStatus = "saving"

\* revision of the session state stored under the session id
DurableRev ==
  IF surveyId \in DOMAIN survey_progress THEN survey_progress[surveyId].rev ELSE -1

\* C8: a write started from an older session state never replaces the
\* stored result of a write of a newer state.
C8_StaleWriteNeverWins == [][DurableRev' >= DurableRev]_vars

\* C9: when saveSurveyProgress returns false, the session in memory is
\* unchanged and the save status is not 'saved'.
C9_FailedWriteNotSaved ==
  [][ (BagCardinality(saveOps') < BagCardinality(saveOps) /\ ~lastSave'.ok) =>
        (surveyItems' = surveyItems /\ saveStatus' # "saved") ]_vars

\* C28: whenever a session is active and the save status is 'saved', the
\* entry stored under the session id holds the session state now in memory.
C28_SavedMeansDurable ==
  (surveyId # Null /\ saveStatus = "saved") =>
    /\ surveyId \in DOMAIN survey_progress
    /\ survey_progress[surveyId].items = surveyItems
    /\ survey_progress[surveyId].config = config

\* The autosave of a session whose writes all succeed.  The session is
\* mutated at most MaxEdits times; a pending timeout fires eventually and a
\* storage call that can resolve does so eventually.
NextSaveFair ==
  \/ handleSetupComplete
  \/ handleSurveyChange
  \/ handleMarkComplete
  \/ TimerFire
  \/ SaveGetItem
  \/ SaveSetItem

SpecSaveFair ==
  /\ InitSave
  /\ [][NextSaveFair]_vars
  /\ WF_vars(TimerFire)
  /\ WF_vars(SaveGetItem)
  /\ WF_vars(SaveSetItem)

\* the entry stored under the session id holds the session state in memory
DurableIsLatest ==
  /\ surveyId \in DOMAIN survey_progress
  /\ survey_progress[surveyId].items = surveyItems
  /\ survey_progress[surveyId].config = config

\* C29: once the mutations of an active session have stopped, and with
\* every write succeeding, eventually and from then on the latest session
\* state is stored under the session id and the save status is not 'saving'.
C29_EventuallySaved ==
  <>[](surveyId # Null => (DurableIsLatest /\ saveStatus # "saving"))

====
